---- MODULE Spec2Model ----
(***************************************************************************)
(* Model of the forecasting pipeline of ml-service: the request-scoped     *)
(* state machine of ForecastService.run_forecast (load, validate,          *)
(* preprocess, auto-select, fit and predict, score, format), with the      *)
(* preprocessor, the three forecasters and the metrics engine as operators.*)
(*                                                                         *)
(* Numbers are integers.  A timestamp is a day number, day 0 being         *)
(* 2024-01-01 (a Monday); times of day are not modelled.  What statsmodels *)
(* and xgboost compute (order selection, fitting, the raw forecast) is a   *)
(* choice from a small set of outcomes the library can produce: a raised   *)
(* exception or a raw forecast.                                            *)
(*                                                                         *)
(* Specifications: Spec is run_forecast on one request; SpecService is     *)
(* successive requests that share dataset_cache; SpecPre and SpecDetect    *)
(* are preprocess_data alone; SpecSelect and SpecTwice are                 *)
(* auto_select_model alone, called once and twice; SpecMetrics is          *)
(* calculate_metrics alone; SpecBaseline is BaselineForecaster.fit_predict *)
(* alone; SpecCache is DatasetCache with callers that interleave at each   *)
(* access to the dict and the clock.                                       *)
(***************************************************************************)
EXTENDS Integers, Sequences, FiniteSets, TLC

VARIABLES
    pc,             \* the stage run_forecast has reached
    request,        \* [model_type, horizon, granularity] as received
    df,             \* the raw table: [columns, dtypes, rows]
    train_series,   \* sequence of [t, v]
    test_series,    \* sequence of [t, v]
    model_type,     \* run_forecast's local model_type (reassigned by auto)
    val_horizon,    \* auto_select_model's val_horizon
    model_scores,   \* auto_select_model's model_scores, in insertion order
    trials,         \* history: the forecaster calls of auto_select_model's loop
    fitted,         \* history: the forecaster the Fit stage ran, or "none"
    predictions,    \* the chosen forecaster's output
    metrics,        \* the metrics bundle of the Score stage
    result,         \* prediction_list: sequence of [date, value]
    error,          \* the exception re-raised to the caller, or "none"
    stages,         \* the stages entered so far, in order
    value_col,      \* preprocess_data's local value_col
    cache,          \* dataset_cache._cache: key -> [data, timestamp]
    now,            \* datetime.now(), in seconds
    threads,        \* callers inside a DatasetCache method: their position and locals
    stored,         \* history: the entries set has stored, in the order stored
    remote,         \* the table the CSV file behind dataset_url parses to
    seasonal_period,\* the seasonal_period argument of BaselineForecaster.fit_predict
    first_run       \* two calls of auto_select_model on the same series: what the
                    \* libraries return for them, and what the first call recorded

vars == <<pc, request, df, train_series, test_series, model_type, val_horizon,
          model_scores, trials, fitted, predictions, metrics, result, error, stages,
          value_col, cache, now, threads, stored, remote, seasonal_period, first_run>>

----------------------------------------------------------------------------
(* Bounds of the model *)

\* raw rows of a free-form table (the preprocessor's own specification)
MaxRawRows == 3
\* raw rows of a patterned table (the pipeline)
MaxRows == 12
\* rows of the patterned table that carry an unparseable date
MaxBad == 7
\* requested horizons are 1..MaxHorizon
MaxHorizon == 2
\* months the calendar covers, from 2024-01
MaxMonth == 48

----------------------------------------------------------------------------
(* Calendar *)

NaT == -1

Granularities == {"daily", "weekly", "monthly"}

Min(a, b) == IF a <= b THEN a ELSE b
Max(a, b) == IF a >= b THEN a ELSE b
Abs(x) == IF x < 0 THEN -x ELSE x

\* days of month mi, counted from 0 = January 2024
MonthLen(mi) ==
    LET m == (mi % 12) + 1
        y == 2024 + (mi \div 12)
    IN  IF m = 2 THEN (IF y % 4 = 0 THEN 29 ELSE 28)
        ELSE IF m \in {4, 6, 9, 11} THEN 30 ELSE 31

MonthStart[mi \in 0..(MaxMonth + 1)] ==
    IF mi = 0 THEN 0 ELSE MonthStart[mi - 1] + MonthLen(mi - 1)

MonthOf(d) == CHOOSE mi \in 0..MaxMonth : MonthStart[mi] <= d /\ d < MonthStart[mi + 1]

MonthEnd(mi) == MonthStart[mi + 1] - 1

\* date.strftime('%Y-%m-%d'): the calendar date of a day number
Strftime(d) ==
    LET mi == MonthOf(d)
    IN  <<2024 + (mi \div 12), (mi % 12) + 1, d - MonthStart[mi] + 1>>

----------------------------------------------------------------------------
(* Preprocessor: services/data_loader.py *)

\* preprocess_data's default date_col and value_col
DateHint == "date"
ValueHint == "sales"

\* labels whose lower case contains 'date', 'time', 'day', 'month' or 'year'
DateLikeLabels == {"date", "Order Date", "timestamp"}
\* labels whose lower case contains 'sales', 'revenue', 'amount', 'value',
\* 'price' or 'quantity'
SalesLikeLabels == {"sales", "Sales Amount", "revenue", "Sales Rep", "Unit Price"}

\* What a column holds, as far as preprocess_data tells columns apart:
\*   "datestr"    object dtype, date strings
\*   "numeric"    int or float dtype
\*   "currency"   object dtype, strings such as "$1,200", numbers once cleaned
\*   "code"       object dtype, strings with a digit that are no numbers ("R12")
\*   "text"       object dtype, strings without '$' or a digit
\*   "datetime64" what pd.to_datetime leaves
\*   "zeroed"     the float zeros to_numeric(errors='coerce').fillna(0) leaves
ColumnKinds == {"datestr", "numeric", "currency", "code", "text", "datetime64", "zeroed"}

\* pd.api.types.is_numeric_dtype(df[col])
IsNumericDtype(kind) == kind \in {"numeric", "zeroed"}
\* df[col].dtype == object
IsObjectDtype(kind) == kind \in {"datestr", "currency", "code", "text"}
\* df[col].astype(str).str.contains('[\$0-9]', regex=True).any()
ContainsCurrencyChars(kind) == kind \in {"datestr", "currency", "code"}

RECURSIVE SumSeq(_)
SumSeq(s) == IF s = <<>> THEN 0 ELSE Head(s) + SumSeq(Tail(s))

RECURSIVE SumOver(_, _)
SumOver(f, S) ==
    IF S = {} THEN 0
    ELSE LET x == CHOOSE y \in S : TRUE IN f[x] + SumOver(f, S \ {x})

SetMin(S) == CHOOSE x \in S : \A y \in S : x <= y
SetMax(S) == CHOOSE x \in S : \A y \in S : x >= y

Labels(table) == {table.columns[i] : i \in 1..Len(table.columns)}
ColumnIndex(table, label) ==
    SetMin({i \in 1..Len(table.columns) : table.columns[i] = label})
KindOf(table, label) == table.dtypes[ColumnIndex(table, label)]

\* the date column: the hinted label, else the first date-like label
DetectDateColumn(table) ==
    IF DateHint \in Labels(table) THEN DateHint
    ELSE table.columns[SetMin({i \in 1..Len(table.columns) :
                                    table.columns[i] \in DateLikeLabels})]

\* the value column: the hinted label; else, of the sales-like columns in column
\* order, the first that is numeric or an object column with currency-like
\* characters; else the first sales-like column; else the hint itself
DetectValueColumn(table) ==
    IF ValueHint \in Labels(table) THEN ValueHint
    ELSE LET potential_cols == {i \in 1..Len(table.columns) :
                                    table.columns[i] \in SalesLikeLabels}
             numeric_match == {i \in potential_cols :
                                  \/ IsNumericDtype(table.dtypes[i])
                                  \/ /\ IsObjectDtype(table.dtypes[i])
                                     /\ ContainsCurrencyChars(table.dtypes[i])}
         IN  IF numeric_match # {} THEN table.columns[SetMin(numeric_match)]
             ELSE IF potential_cols # {} THEN table.columns[SetMin(potential_cols)]
             ELSE ValueHint

\* the currency handling, in place: an object value column is stripped of '$'
\* and ',' and made numeric, 0 where that fails
CleanCurrency(table, col) ==
    IF col \in Labels(table) /\ IsObjectDtype(KindOf(table, col))
    THEN [table EXCEPT !.dtypes[ColumnIndex(table, col)] =
                            IF @ = "currency" THEN "numeric" ELSE "zeroed"]
    ELSE table

\* df[date_col] = pd.to_datetime(df[date_col], errors='coerce'), in place
ParseDates(table, col) ==
    [table EXCEPT !.dtypes[ColumnIndex(table, col)] = "datetime64"]

\* the rows with the numbers the value column holds once cleaned
CleanRows(table) ==
    IF KindOf(table, DetectValueColumn(table)) \in {"numeric", "currency"}
    THEN table.rows
    ELSE [i \in 1..Len(table.rows) |-> [table.rows[i] EXCEPT !.value = 0]]

\* df.dropna(subset=[date_col])
DropInvalidDates(rows) == SelectSeq(rows, LAMBDA r : r.date # NaT)

\* keeps the last row of every date instead of summing the rows of a date
GroupByDateMutantLast(rows) ==
    LET dates == {rows[i].date : i \in 1..Len(rows)}
    IN  [d \in dates |-> rows[SetMax({i \in 1..Len(rows) : rows[i].date = d})].value]

\* df.groupby(date_col)[value_col].sum(): one summed value per distinct date
GroupByDate(rows) ==
    LET dates == {rows[i].date : i \in 1..Len(rows)}
    IN  [d \in dates |->
            SumSeq([i \in 1..Len(rows) |-> IF rows[i].date = d THEN rows[i].value ELSE 0])]

\* the label of the bucket a date falls in: 'D' the day, 'W' (W-SUN, closed and
\* labelled on the right) the Sunday on or after it, 'MS' the first of its month
Bucket(d, g) ==
    IF g = "daily" THEN d
    ELSE IF g = "weekly" THEN d + (6 - (d % 7))
    ELSE MonthStart[MonthOf(d)]

\* the label one granularity unit after a label
NextLabel(t, g) ==
    IF g = "daily" THEN t + 1
    ELSE IF g = "weekly" THEN t + 7
    ELSE MonthStart[MonthOf(t) + 1]

\* the resampler's grid: every label from the first bucket to the last
Grid(lo, hi, g) ==
    IF g = "monthly"
    THEN [i \in 1..(MonthOf(hi) - MonthOf(lo) + 1) |-> MonthStart[MonthOf(lo) + i - 1]]
    ELSE LET step == IF g = "daily" THEN 1 ELSE 7
         IN  [i \in 1..(((hi - lo) \div step) + 1) |-> lo + (i - 1) * step]

RECURSIVE SortedSeq(_)
SortedSeq(S) == IF S = {} THEN <<>> ELSE <<SetMin(S)>> \o SortedSeq(S \ {SetMin(S)})

\* a resampler that keeps only the buckets some date falls in
ResampleMutantNoFill(agg, g) ==
    LET dates == DOMAIN agg
        grid == SortedSeq({Bucket(d, g) : d \in dates})
    IN  [i \in 1..Len(grid) |->
            [t |-> grid[i],
             v |-> SumOver(agg, {d \in dates : Bucket(d, g) = grid[i]})]]

\* df.sort_values, set_index, resample(rule).sum(), fillna(0): the sum of every
\* bucket of the grid, 0 for a bucket no date falls in
Resample(agg, g) ==
    LET dates == DOMAIN agg
    IN  IF dates = {} THEN <<>>
        ELSE LET grid == Grid(Bucket(SetMin(dates), g), Bucket(SetMax(dates), g), g)
             IN  [i \in 1..Len(grid) |->
                    [t |-> grid[i],
                     v |-> SumOver(agg, {d \in dates : Bucket(d, g) = grid[i]})]]

\* split_idx = int(len(series) * 0.8)
SplitIdx(n) == (n * 8) \div 10

\* a validation partition that starts one point early
SplitTestMutantOverlap(series) ==
    SubSeq(series, Max(1, SplitIdx(Len(series))), Len(series))

\* series[:split_idx], series[split_idx:]

SplitTrain(series) == SubSeq(series, 1, SplitIdx(Len(series)))
SplitTest(series) == SubSeq(series, SplitIdx(Len(series)) + 1, Len(series))

\* the series preprocess_data builds before it splits
Series(table, g) == Resample(GroupByDate(DropInvalidDates(CleanRows(table))), g)

HasDateColumn(table) == \E i \in 1..Len(table.columns) : table.columns[i] \in DateLikeLabels
HasValueColumn(table) == \E i \in 1..Len(table.columns) : table.columns[i] \in SalesLikeLabels

----------------------------------------------------------------------------
(* Forecasters: models/baseline.py, models/arima.py, models/xgboost_model.py *)

\* A forecaster call either returns an array or raises
Returned(values) == [ok |-> TRUE, values |-> values, exc |-> "none"]
Raised(exc) == [ok |-> FALSE, values |-> <<>>, exc |-> exc]

\* reads the index of the series instead of its values
ValuesMutantIndex(series) == [i \in 1..Len(series) |-> series[i].t]

\* series.values
Values(series) == [i \in 1..Len(series) |-> series[i].v]

SeasonalPeriod == 7

\* the position, counted from 1, that data.iloc[idx] reads for idx < 0 in a
\* series of n values; a position below 1 is out of range
ILoc(n, idx) == n + idx + 1

\* BaselineForecaster(method='seasonal_naive').fit_predict(data, horizon,
\* seasonal_period): idx = -(seasonal_period - (i % seasonal_period)) for i in
\* range(horizon), read if abs(idx) <= len(data), else data.iloc[-1]; reading
\* out of range raises IndexError
BaselineFitPredict(data, h, p) ==
    LET n == Len(data)
        pos == [i \in 0..(h - 1) |->
                    LET idx == -(p - (i % p))
                    IN  IF Abs(idx) <= n THEN ILoc(n, idx) ELSE ILoc(n, -1)]
    IN  IF \E i \in 0..(h - 1) : pos[i] < 1 THEN Raised("IndexError")
        ELSE Returned([j \in 1..h |-> data[pos[j - 1]]])

\* the call of run_forecast and auto_select_model: seasonal_period defaults to 7
SeasonalNaive(data, h) == BaselineFitPredict(data, h, SeasonalPeriod)

\* np.full(horizon, last_value)
Naive(last_value, h) == [i \in 1..h |-> last_value]

DivergenceFactor == 100
DivergenceFloor == 1000000000
SoftCapFactor == 10

SeqMax(s) == SetMax({s[i] : i \in 1..Len(s)})

\* what statsmodels may do inside ARIMAForecaster.fit_predict: raise (in
\* auto_select_order, in SARIMAX, in both fits, in forecast) or return a raw
\* forecast of horizon values, possibly negative, possibly exploding
RawValues == {-1, 4, 2000000000}
ArimaOutcomes(h) ==
    {[raises |-> TRUE, raw |-> <<>>]} \cup
    {[raises |-> FALSE, raw |-> [i \in 1..h |-> IF i = 1 THEN a ELSE b]] :
        a \in RawValues, b \in RawValues}

\* ARIMAForecaster.fit_predict(data, horizon, auto_order=True); adfuller raises
\* on an empty series, so an empty series always takes the except branch
ARIMAFitPredict(data, h, lib) ==
    IF lib.raises \/ Len(data) = 0
    THEN Returned(Naive(IF Len(data) = 0 THEN 0 ELSE data[Len(data)], h))
    ELSE LET clamped == [i \in 1..h |-> Max(lib.raw[i], 0)]
             historical_max == SeqMax(data)
             threshold == Max(historical_max * DivergenceFactor, DivergenceFloor)
         IN  IF \E i \in 1..h : clamped[i] > threshold
             THEN Returned(Naive(data[Len(data)], h))
             ELSE Returned([i \in 1..h |-> Min(clamped[i], historical_max * SoftCapFactor)])

\* create_features: the lag periods and rolling windows of a granularity
LagPeriods(g) ==
    IF g = "daily" THEN {1, 7, 14, 30}
    ELSE IF g = "weekly" THEN {1, 4, 12, 52} ELSE {1, 3, 6, 12}
RollingWindows(g) ==
    IF g = "daily" THEN {3, 7, 14, 30}
    ELSE IF g = "weekly" THEN {4, 12, 26} ELSE {3, 6, 12}

MinCompleteRows == 10
RocPeriod == 7

\* len(df.dropna()) after create_features: a feature is undefined on the first
\* rows (its lag, its window, 7 for roc_7) and roc_7 is NaN where it is 0/0
CompleteRows(data, g) ==
    LET n == Len(data)
        lead == SetMax({0} \cup {l \in LagPeriods(g) : l <= n}
                           \cup {w \in RollingWindows(g) : n >= w}
                           \cup (IF n >= RocPeriod THEN {RocPeriod} ELSE {}))
    IN  Cardinality({i \in (lead + 1)..n :
            ~(n >= RocPeriod /\ data[i] = 0 /\ data[i - RocPeriod] = 0)})

\* what sklearn and xgboost may do inside XGBoostForecaster.fit_predict: raise
\* somewhere, or predict one raw value per step
XgbRawValues == {-1, 4}
XgbOutcomes(h) ==
    {[raises |-> TRUE, raw |-> <<>>]} \cup
    {[raises |-> FALSE, raw |-> [i \in 1..h |-> IF i = 1 THEN a ELSE b]] :
        a \in XgbRawValues, b \in XgbRawValues}

\* XGBoostForecaster.fit_predict(data, horizon, granularity): both naive
\* fallbacks read data.iloc[-1], which raises IndexError on an empty series,
\* the one in the except handler included
XGBoostFitPredict(data, h, g, lib) ==
    IF Len(data) = 0 THEN Raised("IndexError")
    ELSE IF lib.raises THEN Returned(Naive(data[Len(data)], h))
    ELSE IF CompleteRows(data, g) < MinCompleteRows THEN Returned(Naive(data[Len(data)], h))
    ELSE Returned([i \in 1..h |-> Max(0, lib.raw[i])])

----------------------------------------------------------------------------
(* Metrics engine: services/metrics.py.  A score is kept as the integer the *)
(* rounded float times a power of ten is: mae and accuracy in hundredths,   *)
(* r2 in ten-thousandths.                                                    *)

FloatNaN == -1
FloatInf == -2

\* round(): the nearest integer to a / b, ties to even (a >= 0, b > 0)
RoundHalfEven(a, b) ==
    LET q == a \div b
        r == a % b
    IN  IF 2 * r < b THEN q
        ELSE IF 2 * r > b THEN q + 1
        ELSE IF q % 2 = 0 THEN q ELSE q + 1

\* round(a / b, digits) as an integer, scale = 10^digits
Rounded(a, b, scale) == scale * (a \div b) + RoundHalfEven(scale * (a % b), b)

\* calculate_metrics(actual, predicted): the fields the orchestrator reads
CalculateMetrics(actual, predicted) ==
    LET min_len == Min(Len(actual), Len(predicted))
        a == SubSeq(actual, 1, min_len)
        p == SubSeq(predicted, 1, min_len)
        abs_err == SumSeq([i \in 1..min_len |-> Abs(a[i] - p[i])])
        ss_res == SumSeq([i \in 1..min_len |-> (a[i] - p[i]) * (a[i] - p[i])])
        total == SumSeq(a)
        \* n * ss_tot, ss_tot being sum((a - mean(a))^2)
        n_ss_tot == min_len * SumSeq([i \in 1..min_len |-> a[i] * a[i]]) - total * total
    IN  [mae |-> IF min_len = 0 THEN FloatNaN ELSE Rounded(abs_err, min_len, 100),
         r2 |-> IF n_ss_tot > 0
                THEN 10000 - Rounded(min_len * ss_res, n_ss_tot, 10000)
                ELSE 0,
         accuracy |-> IF total > 0 /\ abs_err < total
                      THEN Rounded(total - abs_err, total, 10000)
                      ELSE 0]

\* round(sqrt(a / b), digits) as an integer, scale = 10^digits: the k nearest to
\* scale * sqrt(a / b), which is at most bound (a >= 0, b > 0)
RoundedSqrt(a, b, scale, bound) ==
    CHOOSE k \in 0..bound :
        /\ (k = 0 \/ (2 * k - 1) * (2 * k - 1) * b <= 4 * scale * scale * a)
        /\ 4 * scale * scale * a < (2 * k + 1) * (2 * k + 1) * b

RECURSIVE ProdSeq(_)
ProdSeq(s) == IF s = <<>> THEN 1 ELSE Head(s) * ProdSeq(Tail(s))

\* rmse = np.sqrt(np.mean((actual - predicted) ** 2)), in hundredths
RootMeanSquaredError(a, p) ==
    LET n == Len(a)
        ss_res == SumSeq([i \in 1..n |-> (a[i] - p[i]) * (a[i] - p[i])])
        largest == SetMax({0} \cup {Abs(a[i] - p[i]) : i \in 1..n})
    IN  IF n = 0 THEN FloatNaN ELSE RoundedSqrt(ss_res, n, 100, 100 * largest)

\* mape = mean(|actual - predicted| / |actual|) * 100 over the points where
\* actual != 0, and 0 when there is none; in hundredths
MeanAbsPercentageError(a, p) ==
    LET mask == {i \in 1..Len(a) : a[i] # 0}
        den == ProdSeq([i \in 1..Len(a) |-> IF i \in mask THEN Abs(a[i]) ELSE 1])
        num == SumSeq([i \in 1..Len(a) |->
                    IF i \in mask THEN Abs(a[i] - p[i]) * (den \div Abs(a[i])) ELSE 0])
    IN  IF mask = {} THEN 0 ELSE Rounded(num, den * Cardinality(mask), 10000)

\* calculate_metrics(actual, predicted) with rmse and mape as well
CalculateMetricsAll(actual, predicted) ==
    LET min_len == Min(Len(actual), Len(predicted))
        a == SubSeq(actual, 1, min_len)
        p == SubSeq(predicted, 1, min_len)
        m == CalculateMetrics(actual, predicted)
    IN  [mae |-> m.mae, r2 |-> m.r2, accuracy |-> m.accuracy,
         rmse |-> RootMeanSquaredError(a, p),
         mape |-> MeanAbsPercentageError(a, p)]

----------------------------------------------------------------------------
(* The dataset cache: services/cache.py.  The map is a function whose domain *)
(* is the set of keys present.                                               *)

\* dataset_cache = DatasetCache(ttl_seconds=300)
TtlSeconds == 300

\* _generate_key: the md5 of "url:granularity", taken to be injective
GenerateKey(url, granularity) == <<url, granularity>>

\* _is_expired(timestamp) at time t
IsExpired(timestamp, t) == t - timestamp > TtlSeconds

EmptyCache == [k \in {} |-> [data |-> 0, timestamp |-> 0]]

Remove(c, key) == [k \in (DOMAIN c) \ {key} |-> c[k]]

\* get(url, granularity) run on its own at time t: whether it returns data
CacheHit(c, key, t) == key \in DOMAIN c /\ ~IsExpired(c[key].timestamp, t)
\* the map a get leaves: an expired entry is deleted
CacheAfterGet(c, key, t) ==
    IF key \in DOMAIN c /\ IsExpired(c[key].timestamp, t) THEN Remove(c, key) ELSE c
\* set(url, data, granularity) run on its own at time t
CacheSet(c, key, data, t) == (key :> [data |-> data, timestamp |-> t]) @@ c

----------------------------------------------------------------------------
(* Inputs *)

ModelTypes == {"baseline", "arima", "xgboost", "auto"}
Candidates == <<"baseline", "arima", "xgboost">>

Requests ==
    [model_type : ModelTypes, horizon : 1..MaxHorizon, granularity : Granularities]

\* the weekday and day of month the patterned tables start on: Thursday 2024-01-04
FirstDay == 3

\* day strides between the distinct dates of a patterned table: one date only,
\* consecutive days, every other day, one date a month
Strides == {0, 1, 2, 31}
ValuePatterns == {<<3>>, <<0>>, <<5, 1, 9>>, <<2, -3>>}

\* n rows: the first bad with an unparseable date, then dates stride days apart,
\* each carried by dup rows; the values repeat the pattern vp
PatternRows(n, bad, dup, stride, vp) ==
    [i \in 1..n |->
        [date |-> IF i <= bad THEN NaT ELSE FirstDay + ((i - bad - 1) \div dup) * stride,
         value |-> vp[((i - 1) % Len(vp)) + 1]]]

PatternTables ==
    {[columns |-> <<"date", "sales">>, dtypes |-> <<"datestr", "numeric">>,
      rows |-> PatternRows(n, bad, dup, stride, vp)] :
        n \in 0..MaxRows, bad \in {0, MaxBad, MaxRows}, dup \in {1, 3},
        stride \in Strides, vp \in ValuePatterns}

\* tables the preprocessor finds no date column, or no value column, in
SchemaTables ==
    {[columns |-> c[1], dtypes |-> c[2], rows |-> PatternRows(MaxRows, 0, 1, 1, <<3>>)] :
        c \in {<<<<"id", "sales">>, <<"numeric", "numeric">>>>,
               <<<<"Order Date", "name">>, <<"datestr", "text">>>>,
               <<<<"timestamp", "revenue">>, <<"datestr", "currency">>>>}}

\* 60 consecutive daily rows that all carry the value 100
ConstantRows == PatternRows(60, 0, 1, 1, <<100>>)
ConstantTables ==
    {[columns |-> <<"date", "sales">>, dtypes |-> <<"datestr", "numeric">>,
      rows |-> ConstantRows]}

\* the requests sent with the 60-row constant table: strategy baseline, daily
ConstantRequests ==
    [model_type : {"baseline"}, horizon : 1..MaxHorizon, granularity : {"daily"}]

Tables == PatternTables \cup SchemaTables \cup ConstantTables

\* free-form tables: every sequence of at most MaxRawRows rows
RawDates == {NaT, 0, 5, 7, 40, 62}
RawValueSet == {-2, 3}
RawRows == [date : RawDates, value : RawValueSet]
\* 2024-01-01 three times, with the values 10, 20, 30
DuplicateDateRows ==
    <<[date |-> 0, value |-> 10], [date |-> 0, value |-> 20], [date |-> 0, value |-> 30]>>
RawTables ==
    {[columns |-> <<"date", "sales">>, dtypes |-> <<"datestr", "numeric">>, rows |-> r] :
        r \in UNION {[1..n -> RawRows] : n \in 0..MaxRawRows} \cup {DuplicateDateRows}}

----------------------------------------------------------------------------
(* The orchestrator: services/forecast_service.py *)

NoMetrics == [mae |-> 0, accuracy |-> 0, r2 |-> 0]
NoThreads == [t \in {} |-> [op |-> "none"]]
\* no earlier call: nothing recorded, and nothing fixed about what the libraries
\* return
NoRun ==
    [ran |-> FALSE, scores |-> <<>>, best |-> "none", fixed |-> FALSE,
     impl |-> [arima |-> [raises |-> TRUE, raw |-> <<>>],
               xgboost |-> [raises |-> TRUE, raw |-> <<>>]]]

\* the request's dataset_url, and the key load_data_from_url caches it under
DatasetUrl == "https://bucket/sales.csv"
RawKey == GenerateKey(DatasetUrl, "raw")

\* the state outside a request (the cache, the clock, the callers, the file
\* behind the URL) and the locals not named above
cacheVars == <<cache, now, threads, stored, remote>>
unitVars == <<value_col, seasonal_period, first_run>>
NoTable == [columns |-> <<>>, dtypes |-> <<>>, rows |-> <<>>]

Init ==
    /\ pc = "Idle"
    /\ request \in Requests
    /\ model_type = request.model_type
    /\ df = NoTable
    /\ train_series = <<>>
    /\ test_series = <<>>
    /\ val_horizon = 0
    /\ model_scores = <<>>
    /\ trials = <<>>
    /\ fitted = "none"
    /\ predictions = <<>>
    /\ metrics = NoMetrics
    /\ result = <<>>
    /\ error = "none"
    /\ stages = <<>>
    /\ value_col = ValueHint
    /\ cache = EmptyCache
    /\ now = 0
    /\ threads = NoThreads
    /\ stored = <<>>
    /\ remote \in Tables
    /\ remote \in ConstantTables => request \in ConstantRequests
    /\ seasonal_period = SeasonalPeriod
    /\ first_run = NoRun

\* an except branch that logs and returns instead of re-raising
FailMutantSwallow(exc) ==
    /\ pc' = "Done"
    /\ error' = error

\* except Exception: logger.error(...); raise
Fail(exc) ==
    /\ pc' = "Failed"
    /\ error' = exc

\* df = load_data_from_url(dataset_url) on a cache miss: the table is fetched,
\* parsed and stored in the cache
Load ==
    /\ pc = "Idle"
    /\ ~CacheHit(cache, RawKey, now)
    /\ stages' = Append(stages, "Load")
    /\ df' = remote
    /\ cache' = CacheSet(CacheAfterGet(cache, RawKey, now), RawKey, remote, now)
    /\ stored' = Append(stored, [key |-> RawKey, data |-> remote, timestamp |-> now])
    /\ pc' = "Loaded"
    /\ UNCHANGED <<now, threads, remote, unitVars>>
    /\ UNCHANGED <<request, train_series, test_series, model_type, val_horizon,
                   model_scores, trials, fitted, predictions, metrics, result, error>>

\* df = load_data_from_url(dataset_url) on a cache hit: the cached object is
\* returned
LoadHit ==
    /\ pc = "Idle"
    /\ CacheHit(cache, RawKey, now)
    /\ stages' = Append(stages, "Load")
    /\ df' = cache[RawKey].data
    /\ pc' = "Loaded"
    /\ UNCHANGED <<cacheVars, unitVars>>
    /\ UNCHANGED <<request, train_series, test_series, model_type, val_horizon,
                   model_scores, trials, fitted, predictions, metrics, result, error>>

\* requests.get or pd.read_csv raises inside load_data_from_url
LoadFails ==
    /\ pc = "Idle"
    /\ ~CacheHit(cache, RawKey, now)
    /\ stages' = Append(stages, "Load")
    /\ cache' = CacheAfterGet(cache, RawKey, now)
    /\ Fail("RequestException")
    /\ UNCHANGED <<now, threads, stored, remote, unitVars>>
    /\ UNCHANGED <<request, df, train_series, test_series, model_type, val_horizon,
                   model_scores, trials, fitted, predictions, metrics, result>>

MinRows == 10

\* validate_data(df)
ValidateData(table) ==
    IF Len(table.rows) = 0 THEN "Dataset is empty"
    ELSE IF Len(table.rows) < MinRows THEN "Dataset too small"
    ELSE "ok"

Validate ==
    /\ pc = "Loaded"
    /\ stages' = Append(stages, "Validate")
    /\ IF ValidateData(df) = "ok"
       THEN pc' = "Validated" /\ error' = error
       ELSE Fail(ValidateData(df))
    /\ UNCHANGED <<request, df, train_series, test_series, model_type, val_horizon,
                   model_scores, trials, fitted, predictions, metrics, result>>
    /\ UNCHANGED <<cacheVars, unitVars>>

\* train_series, test_series = preprocess_data(df, granularity=granularity)
\* The table is the object load_data_from_url returned, which is the object the
\* cache holds: the assignments to df[value_col] and df[date_col] change both.
Preprocess ==
    /\ pc = "Validated"
    /\ stages' = Append(stages, "Preprocess")
    /\ IF ~HasDateColumn(df)
       THEN /\ Fail("ValueError: no date column")
            /\ UNCHANGED <<df, value_col, train_series, test_series>>
       ELSE /\ value_col' = DetectValueColumn(df)
            /\ df' = ParseDates(CleanCurrency(df, DetectValueColumn(df)),
                                DetectDateColumn(df))
            /\ IF ~HasValueColumn(df)
               THEN Fail("KeyError: sales") /\ UNCHANGED <<train_series, test_series>>
               ELSE /\ train_series' = SplitTrain(Series(df, request.granularity))
                    /\ test_series' = SplitTest(Series(df, request.granularity))
                    /\ pc' = "Preprocessed"
                    /\ error' = error
    /\ cache' = IF RawKey \in DOMAIN cache
                THEN [cache EXCEPT ![RawKey].data = df']
                ELSE cache
    /\ UNCHANGED <<request, model_type, val_horizon, model_scores, trials, fitted, predictions,
                   metrics, result>>
    /\ UNCHANGED <<now, threads, stored, remote, seasonal_period, first_run>>

ValidationCap == 30

\* auto_select_model, up to its loop: val_horizon = min(len(test_series), 30)
SelectBegin ==
    /\ pc = "Preprocessed"
    /\ model_type = "auto"
    /\ stages' = Append(stages, "Select")
    /\ val_horizon' = Min(Len(test_series), ValidationCap)
    /\ model_scores' = <<>>
    /\ pc' = "Selecting"
    /\ UNCHANGED <<request, df, train_series, test_series, model_type, trials, fitted,
                   predictions, metrics, result, error>>
    /\ UNCHANGED <<cacheVars, unitVars>>

\* the forecaster call of one candidate, at horizon h
RunForecaster(m, data, h, g, alib, xlib) ==
    IF m = "baseline" THEN SeasonalNaive(data, h)
    ELSE IF m = "arima" THEN ARIMAFitPredict(data, h, alib)
    ELSE IF m = "xgboost" THEN XGBoostFitPredict(data, h, g, xlib)
    ELSE Raised("ValueError: Unknown model type")

\* the score auto_select_model records for one candidate
ThrownScore(m) == [model |-> m, accuracy |-> 0, mae |-> FloatInf, r2 |-> -10000]

TrialScore(m, out, test, vh) ==
    IF ~out.ok THEN ThrownScore(m)
    ELSE LET actual_vals == SubSeq(Values(test), 1, Min(vh, Len(test)))
             pred_vals == SubSeq(out.values, 1, Min(Len(actual_vals), Len(out.values)))
             mt == CalculateMetrics(actual_vals, pred_vals)
         IN  [model |-> m, accuracy |-> mt.accuracy, mae |-> mt.mae, r2 |-> mt.r2]

\* one iteration of the loop over ['baseline', 'arima', 'xgboost']
Trial ==
    /\ pc = "Selecting"
    /\ Len(model_scores) < Len(Candidates)
    /\ LET m == Candidates[Len(model_scores) + 1]
       IN  \E alib \in ArimaOutcomes(val_horizon), xlib \in XgbOutcomes(val_horizon) :
             LET out == RunForecaster(m, Values(train_series), val_horizon,
                                      request.granularity, alib, xlib)
             IN  /\ first_run.fixed =>
                        alib = first_run.impl.arima /\ xlib = first_run.impl.xgboost
                 /\ model_scores' = Append(model_scores,
                                           TrialScore(m, out, test_series, val_horizon))
                 /\ trials' = Append(trials,
                        [model |-> m, horizon |-> val_horizon, threw |-> ~out.ok,
                         scored |-> IF out.ok THEN Min(val_horizon, Len(test_series)) ELSE 0])
    /\ UNCHANGED <<pc, request, df, train_series, test_series, model_type, val_horizon,
                   fitted, predictions, metrics, result, error, stages>>
    /\ UNCHANGED <<cacheVars, unitVars>>

\* (accuracy, r2) tuples compare lexicographically
ScoreLess(a, b) == a.accuracy < b.accuracy \/ (a.accuracy = b.accuracy /\ a.r2 < b.r2)

\* returns the last of the entries no other entry beats
BestModelMutantLast(scores) ==
    LET i == CHOOSE j \in 1..Len(scores) :
                /\ \A k \in 1..Len(scores) :
                        ~(scores[j].accuracy < scores[k].accuracy
                            \/ (scores[j].accuracy = scores[k].accuracy
                                    /\ scores[j].r2 < scores[k].r2))
                /\ \A k \in (j + 1)..Len(scores) :
                        scores[k].accuracy < scores[j].accuracy
                            \/ (scores[k].accuracy = scores[j].accuracy
                                    /\ scores[k].r2 < scores[j].r2)
    IN  scores[i].model

\* ranks by accuracy alone
BestModelMutantAccuracyOnly(scores) ==
    LET i == CHOOSE j \in 1..Len(scores) :
                /\ \A k \in 1..Len(scores) : scores[k].accuracy <= scores[j].accuracy
                /\ \A k \in 1..(j - 1) : scores[k].accuracy < scores[j].accuracy
    IN  scores[i].model

\* max(model_scores.items(), key=...)[0]: the first entry no other entry beats
BestModel(scores) ==
    LET i == CHOOSE j \in 1..Len(scores) :
                /\ \A k \in 1..Len(scores) : ~ScoreLess(scores[j], scores[k])
                /\ \A k \in 1..(j - 1) : ScoreLess(scores[k], scores[j])
    IN  scores[i].model

\* auto_select_model returns; run_forecast rebinds model_type
SelectBest ==
    /\ pc = "Selecting"
    /\ Len(model_scores) = Len(Candidates)
    /\ model_type' = BestModel(model_scores)
    /\ pc' = "Selected"
    /\ UNCHANGED <<request, df, train_series, test_series, val_horizon, model_scores, trials, fitted,
                   predictions, metrics, result, error, stages>>
    /\ UNCHANGED <<cacheVars, unitVars>>

\* the if/elif chain that runs the selected forecaster at the requested horizon
FitPredict ==
    /\ \/ pc = "Preprocessed" /\ model_type # "auto"
       \/ pc = "Selected"
    /\ stages' = Append(stages, "FitPredict")
    /\ fitted' = model_type
    /\ \E alib \in ArimaOutcomes(request.horizon), xlib \in XgbOutcomes(request.horizon) :
         LET out == RunForecaster(model_type, Values(train_series), request.horizon,
                                  request.granularity, alib, xlib)
         IN  IF out.ok
             THEN predictions' = out.values /\ pc' = "Fitted" /\ error' = error
             ELSE predictions' = predictions /\ Fail(out.exc)
    /\ UNCHANGED <<request, df, train_series, test_series, model_type, val_horizon,
                   model_scores, trials, metrics, result>>
    /\ UNCHANGED <<cacheVars, unitVars>>

\* the metrics of the request
ScoreMetrics(train, test, preds, h) ==
    IF Len(test) > 0
    THEN CalculateMetrics(Values(test), SubSeq(preds, 1, Min(Len(test), Len(preds))))
    ELSE LET n == Min(h, Len(train) \div 5)
         IN  IF n > 0
             THEN CalculateMetrics(SubSeq(Values(train), Len(train) - n + 1, Len(train)),
                                   SubSeq(preds, 1, Min(n, Len(preds))))
             ELSE [mae |-> 0, accuracy |-> 0]

Score ==
    /\ pc = "Fitted"
    /\ stages' = Append(stages, "Score")
    /\ metrics' = ScoreMetrics(train_series, test_series, predictions, request.horizon)
    /\ pc' = "Scored"
    /\ UNCHANGED <<request, df, train_series, test_series, model_type, val_horizon,
                   model_scores, trials, fitted, predictions, result, error>>
    /\ UNCHANGED <<cacheVars, unitVars>>

\* pd.date_range(start, periods=periods, freq=...): 'D' starts on start, 'W' on
\* the Sunday on or after it, 'M' on the month end on or after it
DateRange(start, periods, g) ==
    IF g = "daily" THEN [i \in 1..periods |-> start + (i - 1)]
    ELSE IF g = "weekly" THEN [i \in 1..periods |-> start + (6 - (start % 7)) + 7 * (i - 1)]
    ELSE [i \in 1..periods |-> MonthEnd(MonthOf(start) + i - 1)]

\* future_dates = pd.date_range(last_date, periods=horizon + 1, freq=...)[1:]
FutureDates(last_date, h, g) == Tail(DateRange(last_date, h + 1, g))

\* [{'date': ..., 'value': ...} for date, value in zip(future_dates, predictions)]
PredictionList(dates, preds) ==
    [i \in 1..Min(Len(dates), Len(preds)) |-> [date |-> Strftime(dates[i]), value |-> preds[i]]]

\* train_series.index[-1] raises IndexError on an empty train partition
Format ==
    /\ pc = "Scored"
    /\ stages' = Append(stages, "Format")
    /\ IF Len(train_series) = 0
       THEN Fail("IndexError") /\ result' = result
       ELSE /\ result' = PredictionList(
                    FutureDates(train_series[Len(train_series)].t, request.horizon,
                                request.granularity),
                    predictions)
            /\ pc' = "Done"
            /\ error' = error
    /\ UNCHANGED <<request, df, train_series, test_series, model_type, val_horizon,
                   model_scores, trials, fitted, predictions, metrics>>
    /\ UNCHANGED <<cacheVars, unitVars>>

Next ==
    \/ Load
    \/ LoadFails
    \/ Validate
    \/ Preprocess
    \/ SelectBegin
    \/ Trial
    \/ SelectBest
    \/ FitPredict
    \/ Score
    \/ Format

Spec == Init /\ [][Next]_vars

----------------------------------------------------------------------------
(* preprocess_data on its own, as test_loader.py calls it: any free-form table *)

InitPre ==
    /\ pc = "Validated"
    /\ request \in [model_type : {"baseline"}, horizon : {1}, granularity : Granularities]
    /\ model_type = request.model_type
    /\ df \in RawTables
    /\ train_series = <<>>
    /\ test_series = <<>>
    /\ val_horizon = 0
    /\ model_scores = <<>>
    /\ trials = <<>>
    /\ fitted = "none"
    /\ predictions = <<>>
    /\ metrics = NoMetrics
    /\ result = <<>>
    /\ error = "none"
    /\ stages = <<>>
    /\ value_col = ValueHint
    /\ cache = EmptyCache
    /\ now = 0
    /\ threads = NoThreads
    /\ stored = <<>>
    /\ remote = NoTable
    /\ seasonal_period = SeasonalPeriod
    /\ first_run = NoRun

SpecPre == InitPre /\ [][Preprocess]_vars

----------------------------------------------------------------------------
(* preprocess_data on tables with several candidate value columns: a date   *)
(* column, then one or two columns of any label and content                 *)

CandidateLabels == {"sales", "Sales Rep", "Sales Amount", "revenue", "name"}
CandidateKinds == {"numeric", "currency", "code", "text"}

DetectTables ==
    {[columns |-> <<DateHint>> \o c, dtypes |-> <<"datestr">> \o k,
      rows |-> PatternRows(3, 0, 1, 1, <<5, 1, 9>>)] :
        c \in {x \in UNION {[1..n -> CandidateLabels] : n \in 1..2} :
                    \A i \in 1..Len(x), j \in 1..Len(x) : x[i] = x[j] => i = j},
        k \in UNION {[1..n -> CandidateKinds] : n \in 1..2}}

\* remote keeps the table as it was parsed
InitDetect ==
    /\ pc = "Validated"
    /\ request \in [model_type : {"baseline"}, horizon : {1}, granularity : {"daily"}]
    /\ model_type = request.model_type
    /\ df \in {t \in DetectTables : Len(t.columns) = Len(t.dtypes)}
    /\ remote = df
    /\ train_series = <<>>
    /\ test_series = <<>>
    /\ val_horizon = 0
    /\ model_scores = <<>>
    /\ trials = <<>>
    /\ fitted = "none"
    /\ predictions = <<>>
    /\ metrics = NoMetrics
    /\ result = <<>>
    /\ error = "none"
    /\ stages = <<>>
    /\ value_col = ValueHint
    /\ cache = EmptyCache
    /\ now = 0
    /\ threads = NoThreads
    /\ stored = <<>>
    /\ seasonal_period = SeasonalPeriod
    /\ first_run = NoRun

SpecDetect == InitDetect /\ [][Preprocess]_vars

----------------------------------------------------------------------------
(* auto_select_model on its own: any train and validation series *)

\* lengths of the series handed to auto_select_model
MaxTrain == 2
MaxTest == 2
SelectValues == {-2, 0, 1, 3}

DailySeries(vals, t0) == [i \in 1..Len(vals) |-> [t |-> t0 + i - 1, v |-> vals[i]]]

InitSelect ==
    /\ pc = "Preprocessed"
    /\ request \in [model_type : {"auto"}, horizon : {1}, granularity : {"daily"}]
    /\ model_type = "auto"
    /\ df = NoTable
    /\ \E a \in UNION {[1..n -> SelectValues] : n \in 0..MaxTrain},
          b \in UNION {[1..n -> SelectValues] : n \in 0..MaxTest} :
         /\ train_series = DailySeries(a, 0)
         /\ test_series = DailySeries(b, Len(a))
    /\ val_horizon = 0
    /\ model_scores = <<>>
    /\ trials = <<>>
    /\ fitted = "none"
    /\ predictions = <<>>
    /\ metrics = NoMetrics
    /\ result = <<>>
    /\ error = "none"
    /\ stages = <<>>
    /\ value_col = ValueHint
    /\ cache = EmptyCache
    /\ now = 0
    /\ threads = NoThreads
    /\ stored = <<>>
    /\ remote = NoTable
    /\ seasonal_period = SeasonalPeriod
    /\ first_run = NoRun

NextSelect ==
    \/ SelectBegin
    \/ Trial
    \/ SelectBest

SpecSelect == InitSelect /\ [][NextSelect]_vars

----------------------------------------------------------------------------
(* auto_select_model called twice on the same series, the libraries being   *)
(* deterministic: what they return for these series is fixed beforehand     *)

TwiceValues == {0, 3}

InitTwice ==
    /\ pc = "Preprocessed"
    /\ request \in [model_type : {"auto"}, horizon : {1}, granularity : {"daily"}]
    /\ model_type = "auto"
    /\ df = NoTable
    /\ \E a \in UNION {[1..n -> TwiceValues] : n \in 0..MaxTrain},
          b \in UNION {[1..n -> TwiceValues] : n \in 0..MaxTest} :
         /\ train_series = DailySeries(a, 0)
         /\ test_series = DailySeries(b, Len(a))
         /\ \E alib \in ArimaOutcomes(Min(Len(b), ValidationCap)),
               xlib \in XgbOutcomes(Min(Len(b), ValidationCap)) :
                first_run = [NoRun EXCEPT !.fixed = TRUE,
                                          !.impl = [arima |-> alib, xgboost |-> xlib]]
    /\ val_horizon = 0
    /\ model_scores = <<>>
    /\ trials = <<>>
    /\ fitted = "none"
    /\ predictions = <<>>
    /\ metrics = NoMetrics
    /\ result = <<>>
    /\ error = "none"
    /\ stages = <<>>
    /\ value_col = ValueHint
    /\ cache = EmptyCache
    /\ now = 0
    /\ threads = NoThreads
    /\ stored = <<>>
    /\ remote = NoTable
    /\ seasonal_period = SeasonalPeriod

\* the first call has returned; auto_select_model is called again with the same
\* series
Rerun ==
    /\ pc = "Selected"
    /\ ~first_run.ran
    /\ first_run' = [first_run EXCEPT !.ran = TRUE, !.scores = model_scores,
                                      !.best = model_type]
    /\ model_type' = "auto"
    /\ model_scores' = <<>>
    /\ trials' = <<>>
    /\ val_horizon' = 0
    /\ pc' = "Preprocessed"
    /\ UNCHANGED <<request, df, train_series, test_series, fitted, predictions, metrics,
                   result, error, stages, cacheVars, value_col, seasonal_period>>

NextTwice ==
    \/ SelectBegin
    \/ Trial
    \/ SelectBest
    \/ Rerun

SpecTwice == InitTwice /\ [][NextTwice]_vars

----------------------------------------------------------------------------
(* calculate_metrics on its own: any two short arrays *)

\* lengths and values of the arrays handed to calculate_metrics
MaxActual == 3
MetricValues == {-2, 0, 1, 3}

InitMetrics ==
    /\ pc = "Fitted"
    /\ request \in [model_type : {"baseline"}, horizon : {1}, granularity : {"daily"}]
    /\ model_type = request.model_type
    /\ df = NoTable
    /\ train_series = <<>>
    /\ \E a \in UNION {[1..n -> MetricValues] : n \in 0..MaxActual} :
            test_series = DailySeries(a, 0)
    /\ predictions \in UNION {[1..n -> MetricValues] : n \in 0..MaxActual}
    /\ val_horizon = 0
    /\ model_scores = <<>>
    /\ trials = <<>>
    /\ fitted = "none"
    /\ metrics = NoMetrics
    /\ result = <<>>
    /\ error = "none"
    /\ stages = <<>>
    /\ value_col = ValueHint
    /\ cache = EmptyCache
    /\ now = 0
    /\ threads = NoThreads
    /\ stored = <<>>
    /\ remote = NoTable
    /\ seasonal_period = SeasonalPeriod
    /\ first_run = NoRun

\* metrics = calculate_metrics(actual, predicted)
Calculate ==
    /\ pc = "Fitted"
    /\ metrics' = CalculateMetricsAll(Values(test_series), predictions)
    /\ pc' = "Scored"
    /\ UNCHANGED <<request, df, train_series, test_series, model_type, val_horizon,
                   model_scores, trials, fitted, predictions, result, error, stages>>
    /\ UNCHANGED <<cacheVars, unitVars>>

SpecMetrics == InitMetrics /\ [][Calculate]_vars

----------------------------------------------------------------------------
(* BaselineForecaster.fit_predict on its own: any short series, horizon and *)
(* seasonal period                                                          *)

MaxSeries == 4
MaxPeriod == 4
MaxBaselineHorizon == 6
BaselineValues == {0, 5}

InitBaseline ==
    /\ pc = "Preprocessed"
    /\ request \in [model_type : {"baseline"}, horizon : 1..MaxBaselineHorizon,
                     granularity : {"daily"}]
    /\ model_type = request.model_type
    /\ df = NoTable
    /\ \E a \in UNION {[1..n -> BaselineValues] : n \in 0..MaxSeries} :
            train_series = DailySeries(a, 0)
    /\ test_series = <<>>
    /\ seasonal_period \in 1..MaxPeriod
    /\ val_horizon = 0
    /\ model_scores = <<>>
    /\ trials = <<>>
    /\ fitted = "none"
    /\ predictions = <<>>
    /\ metrics = NoMetrics
    /\ result = <<>>
    /\ error = "none"
    /\ stages = <<>>
    /\ value_col = ValueHint
    /\ cache = EmptyCache
    /\ now = 0
    /\ threads = NoThreads
    /\ stored = <<>>
    /\ remote = NoTable
    /\ first_run = NoRun

\* predictions = baseline.fit_predict(train_series, horizon, seasonal_period)
BaselineCall ==
    /\ pc = "Preprocessed"
    /\ fitted' = "baseline"
    /\ LET out == BaselineFitPredict(Values(train_series), request.horizon, seasonal_period)
       IN  IF out.ok
           THEN predictions' = out.values /\ pc' = "Fitted" /\ error' = error
           ELSE predictions' = predictions /\ Fail(out.exc)
    /\ UNCHANGED <<request, df, train_series, test_series, model_type, val_horizon,
                   model_scores, trials, metrics, result, stages>>
    /\ UNCHANGED <<cacheVars, unitVars>>

SpecBaseline == InitBaseline /\ [][BaselineCall]_vars

----------------------------------------------------------------------------
(* DatasetCache called from several threads.  The class takes no lock; a     *)
(* step is one access to the map or to the clock, which the interpreter runs *)
(* whole, and the threads' steps interleave freely.                          *)

Callers == {"t1", "t2"}
\* calls a thread makes
MaxCalls == 2
\* seconds the clock advances at a time, and how often it does
ClockStep == 200
MaxTicks == 2

Urls == {DatasetUrl}
Keys == {GenerateKey(u, "raw") : u \in Urls}

NoReturn == [kind |-> "none", data |-> 0]
IdleThread ==
    [op |-> "none", pc |-> "idle", key |-> RawKey, data |-> 0, timestamp |-> 0,
     size |-> 0, visited |-> {}, expired_keys |-> {}, ret |-> NoReturn, calls |-> 0]

\* the data the n-th call of a thread hands to set
SetData(t, n) == <<t, n>>

InitCache ==
    /\ pc = "Idle"
    /\ request \in [model_type : {"baseline"}, horizon : {1}, granularity : {"daily"}]
    /\ model_type = request.model_type
    /\ df = NoTable
    /\ train_series = <<>>
    /\ test_series = <<>>
    /\ val_horizon = 0
    /\ model_scores = <<>>
    /\ trials = <<>>
    /\ fitted = "none"
    /\ predictions = <<>>
    /\ metrics = NoMetrics
    /\ result = <<>>
    /\ error = "none"
    /\ stages = <<>>
    /\ value_col = ValueHint
    /\ cache = EmptyCache
    /\ now = 0
    /\ threads = [t \in Callers |-> IdleThread]
    /\ stored = <<>>
    /\ remote = NoTable
    /\ seasonal_period = SeasonalPeriod
    /\ first_run = NoRun

requestVars ==
    <<pc, request, df, train_series, test_series, model_type, val_horizon, model_scores,
      trials, fitted, predictions, metrics, result, error, stages, unitVars, remote>>

MayCall(t) ==
    /\ threads[t].pc \in {"idle", "returned", "raised"}
    /\ threads[t].calls < MaxCalls

Begin(t, op, key, line) ==
    [IdleThread EXCEPT !.op = op, !.pc = line, !.key = key, !.calls = threads[t].calls + 1]

Return(t, kind, data) ==
    [threads EXCEPT ![t].pc = "returned", ![t].ret = [kind |-> kind, data |-> data]]
Raise(t, exc) ==
    [threads EXCEPT ![t].pc = "raised", ![t].ret = [kind |-> "raised", data |-> exc]]

\* get(url, granularity) is entered: key = self._generate_key(url, granularity)
CallGet(t) ==
    /\ MayCall(t)
    /\ \E key \in Keys : threads' = [threads EXCEPT ![t] = Begin(t, "get", key, "45")]
    /\ UNCHANGED <<cache, now, stored, requestVars>>

\* if key in self._cache: ... else the miss is logged and None returned
GetContains(t) ==
    /\ threads[t].op = "get" /\ threads[t].pc = "45"
    /\ threads' = IF threads[t].key \in DOMAIN cache
                  THEN [threads EXCEPT ![t].pc = "46"]
                  ELSE Return(t, "None", 0)
    /\ UNCHANGED <<cache, now, stored, requestVars>>

\* data, timestamp = self._cache[key]
GetRead(t) ==
    /\ threads[t].op = "get" /\ threads[t].pc = "46"
    /\ threads' = IF threads[t].key \in DOMAIN cache
                  THEN [threads EXCEPT ![t].pc = "47",
                                       ![t].data = cache[threads[t].key].data,
                                       ![t].timestamp = cache[threads[t].key].timestamp]
                  ELSE Raise(t, "KeyError")
    /\ UNCHANGED <<cache, now, stored, requestVars>>

\* if not self._is_expired(timestamp): return data
GetCheck(t) ==
    /\ threads[t].op = "get" /\ threads[t].pc = "47"
    /\ threads' = IF ~IsExpired(threads[t].timestamp, now)
                  THEN Return(t, "data", threads[t].data)
                  ELSE [threads EXCEPT ![t].pc = "52"]
    /\ UNCHANGED <<cache, now, stored, requestVars>>

\* del self._cache[key], then the miss is logged and None returned
GetDelete(t) ==
    /\ threads[t].op = "get" /\ threads[t].pc = "52"
    /\ IF threads[t].key \in DOMAIN cache
       THEN cache' = Remove(cache, threads[t].key) /\ threads' = Return(t, "None", 0)
       ELSE cache' = cache /\ threads' = Raise(t, "KeyError")
    /\ UNCHANGED <<now, stored, requestVars>>

\* set(url, data, granularity) is entered
CallSet(t) ==
    /\ MayCall(t)
    /\ \E key \in Keys :
         threads' = [threads EXCEPT ![t] =
                        [Begin(t, "set", key, "67") EXCEPT
                            !.data = SetData(t, threads[t].calls + 1)]]
    /\ UNCHANGED <<cache, now, stored, requestVars>>

\* the right-hand side (data, datetime.now()) is evaluated
SetNow(t) ==
    /\ threads[t].op = "set" /\ threads[t].pc = "67"
    /\ threads' = [threads EXCEPT ![t].pc = "67 store", ![t].timestamp = now]
    /\ UNCHANGED <<cache, now, stored, requestVars>>

\* an entry whose timestamp was not written with its data
EntryMutantTorn(data, timestamp) == [data |-> data, timestamp |-> 0]

\* the tuple (data, timestamp) the map holds for a key
Entry(data, timestamp) == [data |-> data, timestamp |-> timestamp]

\* self._cache[key] = ...: the tuple is stored, replacing the entry of the key
SetStore(t) ==
    /\ threads[t].op = "set" /\ threads[t].pc = "67 store"
    /\ cache' = (threads[t].key :> Entry(threads[t].data, threads[t].timestamp)) @@ cache
    /\ stored' = Append(stored, [key |-> threads[t].key, data |-> threads[t].data,
                                  timestamp |-> threads[t].timestamp])
    /\ threads' = Return(t, "None", 0)
    /\ UNCHANGED <<now, requestVars>>

\* cleanup_expired() is entered: the iteration over self._cache.items() starts
CallCleanup(t) ==
    /\ MayCall(t)
    /\ threads' = [threads EXCEPT ![t] =
                      [Begin(t, "cleanup", RawKey, "77") EXCEPT
                          !.size = Cardinality(DOMAIN cache)]]
    /\ UNCHANGED <<cache, now, stored, requestVars>>

\* one step of the iteration: RuntimeError if the map changed size since the
\* iteration started, else the next item is tested for expiry
CleanupVisit(t) ==
    /\ threads[t].op = "cleanup" /\ threads[t].pc = "77"
    /\ LET todo == (DOMAIN cache) \ threads[t].visited
       IN  IF Cardinality(DOMAIN cache) # threads[t].size
           THEN threads' = Raise(t, "RuntimeError")
           ELSE IF todo = {}
           THEN threads' = [threads EXCEPT ![t].pc = "81"]
           ELSE \E key \in todo :
                  threads' = [threads EXCEPT
                      ![t].visited = @ \cup {key},
                      ![t].expired_keys =
                          IF IsExpired(cache[key].timestamp, now) THEN @ \cup {key} ELSE @]
    /\ UNCHANGED <<cache, now, stored, requestVars>>

\* for key in expired_keys: del self._cache[key]
CleanupDelete(t) ==
    /\ threads[t].op = "cleanup" /\ threads[t].pc = "81"
    /\ IF threads[t].expired_keys = {}
       THEN cache' = cache /\ threads' = Return(t, "None", 0)
       ELSE \E key \in threads[t].expired_keys :
              IF key \in DOMAIN cache
              THEN /\ cache' = Remove(cache, key)
                   /\ threads' = [threads EXCEPT ![t].expired_keys = @ \ {key}]
              ELSE /\ cache' = cache
                   /\ threads' = Raise(t, "KeyError")
    /\ UNCHANGED <<now, stored, requestVars>>

\* time passes
Tick ==
    /\ now + ClockStep <= MaxTicks * ClockStep
    /\ now' = now + ClockStep
    /\ UNCHANGED <<cache, threads, stored, requestVars>>

NextCache ==
    \/ \E t \in Callers :
            \/ CallGet(t) \/ GetContains(t) \/ GetRead(t) \/ GetCheck(t) \/ GetDelete(t)
            \/ CallSet(t) \/ SetNow(t) \/ SetStore(t)
            \/ CallCleanup(t) \/ CleanupVisit(t) \/ CleanupDelete(t)
    \/ Tick

SpecCache == InitCache /\ [][NextCache]_vars

----------------------------------------------------------------------------
(* The service: requests for one dataset_url, one after the other (the       *)
(* endpoint coroutine runs run_forecast without awaiting), over the cache    *)
(* they share, while time passes.                                            *)

ServiceRequests == [model_type : {"baseline"}, horizon : {1}, granularity : Granularities]

\* the files the URL may serve: ten daily rows, the currency table, a table
\* without a date column
ServiceTables ==
    {[columns |-> <<"date", "sales">>, dtypes |-> <<"datestr", "numeric">>,
      rows |-> PatternRows(MinRows, 0, 1, 1, <<5, 1, 9>>)]} \cup SchemaTables

InitService ==
    /\ pc = "Idle"
    /\ request \in ServiceRequests
    /\ model_type = request.model_type
    /\ df = NoTable
    /\ train_series = <<>>
    /\ test_series = <<>>
    /\ val_horizon = 0
    /\ model_scores = <<>>
    /\ trials = <<>>
    /\ fitted = "none"
    /\ predictions = <<>>
    /\ metrics = NoMetrics
    /\ result = <<>>
    /\ error = "none"
    /\ stages = <<>>
    /\ value_col = ValueHint
    /\ cache = EmptyCache
    /\ now = 0
    /\ threads = NoThreads
    /\ stored = <<>>
    /\ remote \in ServiceTables
    /\ seasonal_period = SeasonalPeriod
    /\ first_run = NoRun

\* the request has been answered and the next one arrives: run_forecast starts
\* with fresh locals
NextRequest ==
    /\ pc \in {"Done", "Failed"}
    /\ pc' = "Idle"
    /\ request' \in ServiceRequests
    /\ model_type' = request'.model_type
    /\ df' = NoTable
    /\ train_series' = <<>>
    /\ test_series' = <<>>
    /\ val_horizon' = 0
    /\ model_scores' = <<>>
    /\ trials' = <<>>
    /\ fitted' = "none"
    /\ predictions' = <<>>
    /\ metrics' = NoMetrics
    /\ result' = <<>>
    /\ error' = "none"
    /\ stages' = <<>>
    /\ value_col' = ValueHint
    /\ UNCHANGED <<cacheVars, seasonal_period, first_run>>

NextService ==
    \/ Load
    \/ LoadHit
    \/ LoadFails
    \/ Validate
    \/ Preprocess
    \/ FitPredict
    \/ Score
    \/ Format
    \/ NextRequest
    \/ Tick

SpecService == InitService /\ [][NextService]_vars

----------------------------------------------------------------------------
(* Claims *)

\* the label i granularity units after a label
RECURSIVE LabelAfter(_, _, _)
LabelAfter(t, i, g) == IF i = 0 THEN t ELSE LabelAfter(NextLabel(t, g), i - 1, g)

\* C1: every successful request returns exactly horizon (timestamp, value) pairs
\* and every returned value is >= 0, whatever values the dataset holds
C1_HorizonNonNegativeValues ==
    pc = "Done" =>
        /\ Len(result) = request.horizon
        /\ \A i \in 1..Len(result) : result[i].value >= 0

\* C2: every value the statistical forecaster returns is >= 0 and at most ten
\* times the maximum of the train series, on all of its return paths
C2_StatisticalWithinRails ==
    (pc = "Fitted" /\ fitted = "arima" /\ Len(train_series) > 0) =>
        \A i \in 1..Len(predictions) :
            /\ predictions[i] >= 0
            /\ predictions[i] <= 10 * SeqMax(Values(train_series))

\* C3: the statistical and the boosted forecaster never raise to the
\* orchestrator: a request with either strategy never fails in Fit & Predict
C3_StrategyNeverRaises ==
    ~(/\ pc = "Failed"
      /\ model_type \in {"arima", "xgboost"}
      /\ stages[Len(stages)] = "FitPredict")

\* C4: whenever fewer than 10 rows have a parseable date the request fails in
\* Validate with the insufficient-data error and no forecaster is run
C4_FewParseableRowsRejected ==
    (pc \notin {"Idle", "Loaded"} /\ error # "RequestException"
        /\ Len(DropInvalidDates(df.rows)) < MinRows) =>
        /\ pc = "Failed"
        /\ error \in {"Dataset too small", "Dataset is empty"}
        /\ stages = <<"Load", "Validate">>
        /\ fitted = "none" /\ trials = <<>>

ParseableDates == {df.rows[i].date : i \in 1..Len(df.rows)} \ {NaT}

\* C5: train followed by validation is the full grid from the earliest to the
\* latest observed date: one granularity unit between neighbours, strictly
\* increasing, every grid timestamp of the observed range present, and 0 in a
\* period no raw row falls in
C5_StrictGridZeroFilled ==
    (pc = "Preprocessed" /\ ParseableDates # {}) =>
        LET s == train_series \o test_series
            g == request.granularity
        IN  /\ Len(s) >= 1
            /\ \A i \in 1..(Len(s) - 1) :
                    s[i].t < s[i + 1].t /\ s[i + 1].t = NextLabel(s[i].t, g)
            /\ \A d \in SetMin(ParseableDates)..SetMax(ParseableDates) :
                    Bucket(d, g) = d => \E i \in 1..Len(s) : s[i].t = d
            /\ \A d \in ParseableDates : \E i \in 1..Len(s) : s[i].t = Bucket(d, g)
            /\ \A i \in 1..Len(s) :
                    (\A d \in ParseableDates : Bucket(d, g) # s[i].t) => s[i].v = 0

C5_Witness ==
    /\ pc = "Preprocessed"
    /\ Len(train_series) + Len(test_series) >= 3
    /\ \E i \in 1..Len(train_series) :
            \A d \in ParseableDates : Bucket(d, request.granularity) # train_series[i].t

\* C6: train is the first floor(0.8 n) points of the resampled series and
\* validation the rest, in order, train wholly before validation
C6_ChronologicalSplit ==
    pc = "Preprocessed" =>
        LET s == Series(df, request.granularity)
            k == Len(train_series)
        IN  /\ 5 * k <= 4 * Len(s) /\ 4 * Len(s) < 5 * (k + 1)
            /\ train_series \o test_series = s
            /\ \A i \in 1..Len(train_series), j \in 1..Len(test_series) :
                    train_series[i].t < test_series[j].t

C6_Witness ==
    /\ pc = "Preprocessed"
    /\ Len(train_series) >= 3
    /\ Len(test_series) >= 2

\* a score no recorded score beats, (accuracy, R2) compared lexicographically
Maximal(scores, j) ==
    \A k \in 1..Len(scores) :
        \/ scores[k].accuracy < scores[j].accuracy
        \/ (scores[k].accuracy = scores[j].accuracy /\ scores[k].r2 <= scores[j].r2)

\* C7: auto-selection runs baseline, statistical, boosted once each, in that
\* order, at horizon min(|validation|, 30), scores each against that many
\* validation points, returns a strategy whose (accuracy, R2) is maximal, and
\* that strategy is the one the Fit stage runs
C7_AutoSelectsMaximal ==
    /\ Len(trials) = Len(model_scores)
    /\ \A i \in 1..Len(trials) :
            /\ trials[i].model = Candidates[i]
            /\ model_scores[i].model = Candidates[i]
            /\ trials[i].horizon = Min(Len(test_series), 30)
            /\ ~trials[i].threw => trials[i].scored = Min(Len(test_series), 30)
    /\ (request.model_type = "auto" /\ pc \in {"Selected", "Fitted"}) =>
            /\ Len(trials) = 3
            /\ \E j \in 1..3 : model_scores[j].model = model_type /\ Maximal(model_scores, j)
    /\ (request.model_type = "auto" /\ pc = "Fitted") =>
            \E j \in 1..3 : model_scores[j].model = fitted /\ Maximal(model_scores, j)

C7_Witness ==
    /\ pc = "Fitted"
    /\ request.model_type = "auto"
    /\ Len(test_series) > 30
    /\ fitted = "xgboost"
    /\ \E j \in 1..3 : model_scores[j].accuracy > 0

StageOrder(mt) ==
    IF mt = "auto"
    THEN <<"Load", "Validate", "Preprocess", "Select", "FitPredict", "Score", "Format">>
    ELSE <<"Load", "Validate", "Preprocess", "FitPredict", "Score", "Format">>

\* C9: the stages are entered in the fixed order, Select exactly for strategy
\* auto; Done is reached only after all of them; a stage that raises moves the
\* request to Failed with the error kept for the caller, and nothing runs after
C9_StagesInOrder ==
    /\ [](/\ stages = SubSeq(StageOrder(request.model_type), 1, Len(stages))
          /\ (pc = "Done" => stages = StageOrder(request.model_type) /\ error = "none")
          /\ (pc = "Failed" <=> error # "none"))
    /\ [][pc # "Failed" /\ pc # "Done"]_vars

C9_Witness ==
    /\ pc = "Failed"
    /\ request.model_type = "auto"
    /\ stages[Len(stages)] = "Format"

\* C10: the output timestamps continue the resampling grid: the first is one
\* granularity unit after the last training timestamp, each later one a unit
\* after its predecessor, and the i-th is paired with the i-th prediction
C10_TimestampsOnGrid ==
    pc = "Done" =>
        /\ Len(result) = request.horizon
        /\ \A i \in 1..Len(result) :
                /\ result[i].date =
                     Strftime(LabelAfter(train_series[Len(train_series)].t, i,
                                         request.granularity))
                /\ result[i].value = predictions[i]

\* C11: scoring a non-constant series with a non-zero mean, positive or
\* negative, against itself gives mae 0, rmse 0, mape 0, R2 1 and accuracy 100
C11_SelfScorePerfect ==
    LET x == Values(test_series)
    IN  (/\ pc = "Scored"
         /\ predictions = x
         /\ \E i \in 1..Len(x), j \in 1..Len(x) : x[i] # x[j]
         /\ SumSeq(x) # 0) =>
            /\ metrics.mae = 0
            /\ metrics.rmse = 0
            /\ metrics.mape = 0
            /\ metrics.r2 = 10000
            /\ metrics.accuracy = 10000

\* C12: on a train series of at least 10 points the boosted forecaster returns
\* exactly horizon values, each >= 0, on the recursive path and on both naive
\* fallbacks
C12_BoostedLengthNonNegative ==
    (pc = "Fitted" /\ fitted = "xgboost" /\ Len(train_series) >= 10) =>
        /\ Len(predictions) = request.horizon
        /\ \A i \in 1..Len(predictions) : predictions[i] >= 0

\* C13: seasonal-naive with period p on a series of n values returns exactly
\* horizon values; with k = p - (i mod p), the value at index i is the one k
\* steps from the end when k <= n and the last value when k > n
C13_SeasonalNaiveIndices ==
    fitted = "baseline" =>
        LET x == Values(train_series)
            n == Len(x)
        IN  /\ pc = "Fitted"
            /\ Len(predictions) = request.horizon
            /\ \A i \in 0..(request.horizon - 1) :
                    LET k == seasonal_period - (i % seasonal_period)
                    IN  predictions[i + 1] = IF k <= n THEN x[n - k + 1] ELSE x[n]

\* C14: the value of every bucket of the preprocessed series is the sum of the
\* values of the raw rows whose parsed date falls in it, rows sharing a date
\* included; every row with a parseable date is counted in exactly one bucket
C14_BucketSums ==
    pc = "Preprocessed" =>
        LET s == train_series \o test_series
            g == request.granularity
            rows == df.rows
            InBucket(j, t) == rows[j].date # NaT /\ Bucket(rows[j].date, g) = t
        IN  /\ \A i \in 1..Len(s) :
                    s[i].v = SumSeq([j \in 1..Len(rows) |->
                                        IF InBucket(j, s[i].t) THEN rows[j].value ELSE 0])
            /\ \A j \in 1..Len(rows) :
                    rows[j].date # NaT =>
                        Cardinality({i \in 1..Len(s) : InBucket(j, s[i].t)}) = 1

C14_Witness ==
    /\ pc = "Preprocessed"
    /\ request.granularity = "daily"
    /\ df.rows = DuplicateDateRows
    /\ train_series \o test_series = <<[t |-> 0, v |-> 60]>>

\* an entry some set stored for the key
WasStored(key, data, timestamp) ==
    \E i \in 1..Len(stored) :
        stored[i] = [key |-> key, data |-> data, timestamp |-> timestamp]

\* C15: whatever way concurrent get and set calls on a key interleave, a value
\* get returns is None or the data of one entry that some set stored for the
\* key, read together with that entry's own timestamp; the map never holds
\* anything else
C15_NoTornEntry ==
    /\ \A key \in DOMAIN cache :
            WasStored(key, cache[key].data, cache[key].timestamp)
    /\ \A t \in DOMAIN threads :
            threads[t].op = "get" =>
                /\ threads[t].ret.kind \in {"none", "None", "data", "raised"}
                /\ (threads[t].pc \in {"47", "52"} \/ threads[t].ret.kind = "data") =>
                        WasStored(threads[t].key, threads[t].data, threads[t].timestamp)
                /\ threads[t].ret.kind = "data" => threads[t].ret.data = threads[t].data

C15_Witness ==
    \E t \in DOMAIN threads, u \in DOMAIN threads :
        /\ threads[t].op = "get" /\ threads[t].ret.kind = "data"
        /\ threads[u].op = "set" /\ threads[u].pc = "67 store"
        /\ threads[u].key = threads[t].key
        /\ Len(stored) >= 2

\* the entry stored last for a key
LastStored(key) ==
    stored[SetMax({i \in 1..Len(stored) : stored[i].key = key})]

\* C16: a get that finds an expired entry, or a sweep, running concurrently
\* with a set on the same key never fails, and once every call has finished an
\* entry that set stored and that has not expired is still in the map
C16_EvictionKeepsNewEntry ==
    /\ \A t \in DOMAIN threads : threads[t].ret.kind # "raised"
    /\ (\A t \in DOMAIN threads : threads[t].pc \in {"idle", "returned"}) =>
            \A key \in Keys :
                (/\ \E i \in 1..Len(stored) : stored[i].key = key
                 /\ ~IsExpired(LastStored(key).timestamp, now)) =>
                    /\ key \in DOMAIN cache
                    /\ cache[key] = [data |-> LastStored(key).data,
                                     timestamp |-> LastStored(key).timestamp]

\* C17: a table in the cache stays as load_data_from_url stored it: every
\* load, a cache hit included, hands the request the content that was stored,
\* and the entry is there until its time-to-live has passed
C17_CachedTableImmutable ==
    /\ (pc = "Loaded" /\ stored # <<>>) => df = LastStored(RawKey).data
    /\ (stored # <<>> /\ ~IsExpired(LastStored(RawKey).timestamp, now)) =>
            RawKey \in DOMAIN cache

\* C18: when no column carries the hinted label, the value column is, among the
\* sales-like columns: the first numeric one wherever it stands; if none is
\* numeric the first string column with currency-like characters; if none the
\* first sales-like column; and the label 'sales' when no column is sales-like
C18_ValueColumnPriority ==
    (pc \in {"Preprocessed", "Failed"} /\ remote # NoTable
        /\ HasDateColumn(remote) /\ ValueHint \notin Labels(remote)) =>
        LET matching == {i \in 1..Len(remote.columns) : remote.columns[i] \in SalesLikeLabels}
            numeric == {i \in matching : remote.dtypes[i] = "numeric"}
            currency == {i \in matching : remote.dtypes[i] \in {"currency", "code"}}
        IN  value_col =
                IF numeric # {} THEN remote.columns[SetMin(numeric)]
                ELSE IF currency # {} THEN remote.columns[SetMin(currency)]
                ELSE IF matching # {} THEN remote.columns[SetMin(matching)]
                ELSE "sales"

\* at least 10 rows, one a day on consecutive days, all with the same value c > 0
ConstantDaily(table, c) ==
    /\ Len(table.rows) >= 10
    /\ c > 0
    /\ HasDateColumn(table) /\ ValueHint \in Labels(table)
    /\ KindOf(table, ValueHint) = "numeric"
    /\ \A i \in 1..Len(table.rows) : table.rows[i].date # NaT /\ table.rows[i].value = c
    /\ \A i \in 1..(Len(table.rows) - 1) : table.rows[i + 1].date = table.rows[i].date + 1

\* C19: on a dataset of at least 10 consecutive daily rows that all carry the
\* same positive value c, a daily request with strategy baseline does not fail,
\* every prediction is c, and the metrics are accuracy 100 and mae 0
C19_ConstantSeriesBaseline ==
    \A c \in {3, 100} :
        (/\ request.model_type = "baseline" /\ request.granularity = "daily"
         /\ ConstantDaily(remote, c)
         /\ error # "RequestException") =>
            /\ pc # "Failed"
            /\ pc \in {"Fitted", "Scored", "Done"} =>
                    /\ Len(predictions) = request.horizon
                    /\ \A i \in 1..Len(predictions) : predictions[i] = c
            /\ pc \in {"Scored", "Done"} => metrics.accuracy = 10000 /\ metrics.mae = 0
            /\ pc = "Done" =>
                    /\ Len(result) = request.horizon
                    /\ \A i \in 1..Len(result) : result[i].value = c

C19_Witness ==
    /\ pc = "Done"
    /\ request.model_type = "baseline" /\ request.granularity = "daily"
    /\ remote.rows = ConstantRows
    /\ request.horizon = MaxHorizon
    /\ metrics.accuracy = 10000

\* C20: a second call of auto_select_model on the same series, the strategy
\* implementations returning what they returned before, records the same
\* three scores and returns the same strategy; when candidates tie on
\* (accuracy, R2) that is the earliest of them in the order baseline,
\* statistical, boosted
C20_SelectionDeterministic ==
    /\ first_run.ran =>
            /\ Len(model_scores) <= Len(first_run.scores)
            /\ \A i \in 1..Len(model_scores) : model_scores[i] = first_run.scores[i]
            /\ pc = "Selected" => model_type = first_run.best
    /\ (first_run.fixed /\ pc = "Selected") =>
            \E j \in 1..3 :
                /\ model_type = Candidates[j]
                /\ Maximal(model_scores, j)
                /\ \A k \in 1..(j - 1) : ~Maximal(model_scores, k)

C20_Witness ==
    /\ first_run.ran
    /\ pc = "Selected"
    /\ model_type = "baseline"
    /\ Maximal(model_scores, 1) /\ Maximal(model_scores, 3)
    /\ ~Maximal(model_scores, 2)
    /\ model_scores[1].accuracy > 0

\* C21: once the Score stage has run, the metrics are those of the validation
\* partition against the first |validation| predictions, both cut to their
\* common length, when the validation partition is non-empty; those of the last
\* n = min(horizon, |train| div 5) train points against the first n predictions
\* when it is empty and n > 0; and when n = 0 a bundle with every field present
\* and zero, the request not failing afterwards
C21_ScoreFallbacks ==
    (\E s \in 1..Len(stages) : stages[s] = "Score") =>
        LET n == Min(request.horizon, Len(train_series) \div 5)
            m == Min(Len(test_series), Len(predictions))
        IN  /\ Len(test_series) > 0 =>
                    metrics = CalculateMetrics(SubSeq(Values(test_series), 1, m),
                                               SubSeq(predictions, 1, m))
            /\ (Len(test_series) = 0 /\ n > 0) =>
                    metrics = CalculateMetrics(
                                  SubSeq(Values(train_series),
                                         Len(train_series) - n + 1, Len(train_series)),
                                  SubSeq(predictions, 1, n))
            /\ (Len(test_series) = 0 /\ n = 0) =>
                    /\ DOMAIN metrics = DOMAIN NoMetrics
                    /\ \A f \in DOMAIN metrics : metrics[f] = 0
                    /\ pc # "Failed"

\* C22: once a table has passed Validate and Preprocess has returned, the train
\* partition and the validation partition are both non-empty, and no later
\* stage fails reading the last train value or the last train timestamp
C22_PartitionsUsable ==
    (/\ Len(stages) >= 3 /\ stages[3] = "Preprocess"
     /\ (pc = "Preprocessed" \/ Len(stages) > 3)) =>
        /\ Len(train_series) >= 1
        /\ Len(test_series) >= 1
        /\ error # "IndexError"

====
